---- MODULE Spec2Model ----
(***************************************************************************)
(* Model of modules/perplexity_sonar_api_with_citations.py: the Pipe       *)
(* class (valves, timeout), the citation helpers, and the asynchronous     *)
(* generator Pipe.pipe, stepped at its suspension points (await / yield).  *)
(*                                                                         *)
(* Text is modelled as a sequence of tokens.  A response line is the       *)
(* sequence of its lexical tokens ("data:", "{", a string literal, ...);   *)
(* a string literal token stands for the JSON string with that content.   *)
(***************************************************************************)
EXTENDS Integers, Sequences, FiniteSets, TLC

\* ---------------------------------------------------------------------
\* Bounds of the model
\* ---------------------------------------------------------------------
\* lines the network delivers to one call checked alone
MaxLines == 3
\* calls made on one Pipe instance when calls are interleaved
MaxCalls == 2
\* lines the network delivers in total when calls are interleaved
MaxCallLines == 1
MaxCitations == 3

CallIds == 1..MaxCalls

\* ---------------------------------------------------------------------
\* JSON text and values (json.loads, as used by _process_line and r.json)
\* ---------------------------------------------------------------------
StrToks ==
  {"citations", "id", "model", "created", "usage", "object", "choices", "index",
   "finish_reason", "message", "role", "content", "assistant", "stop", "sonar",
   "a", "b", "c", "hi", "yo", ""}
NumToks == {"0", "1"}

\* A Python value.  t is its type; s the text of a str (a token sequence) or
\* the digits of a number; items the elements of a list or the values of a
\* dict; keys the keys of a dict, in document order.
StrVal(s) == [t |-> "str", s |-> s, items |-> <<>>, keys |-> <<>>]
NumVal(s) == [t |-> "num", s |-> s, items |-> <<>>, keys |-> <<>>]
NoneVal == [t |-> "none", s |-> <<>>, items |-> <<>>, keys |-> <<>>]
ListVal(items) == [t |-> "list", s |-> <<>>, items |-> items, keys |-> <<>>]
DictVal(keys, items) == [t |-> "dict", s |-> <<>>, items |-> items, keys |-> keys]

\* The text of a string literal token: the token "" is the empty string.
Literal(tok) == IF tok = "" THEN <<>> ELSE <<tok>>

\* Python truth value of a decoded value (`if x`, `not x`).
Truthy(v) ==
  CASE v.t = "list" -> v.items # <<>>
    [] v.t = "dict" -> v.keys # <<>>
    [] v.t = "str" -> v.s # <<>>
    [] v.t = "num" -> v.s # <<"0">>
    [] OTHER -> FALSE

\* isinstance(v, list) / isinstance(v, str)
IsList(v) == v.t = "list"
IsStr(v) == v.t = "str"

\* dict.get(key, default): the last occurrence of a duplicated key wins.
RECURSIVE DictGetFrom(_, _, _, _)
DictGetFrom(d, key, default, i) ==
  IF i = 0 THEN default
  ELSE IF d.keys[i] = key THEN d.items[i]
  ELSE DictGetFrom(d, key, default, i - 1)

DictGet(d, key, default) == DictGetFrom(d, key, default, Len(d.keys))

HasKey(d, key) == \E i \in 1..Len(d.keys) : d.keys[i] = key

ParseFail == [ok |-> FALSE, val |-> NoneVal, rest |-> <<>>]
ParseOk(v, rest) == [ok |-> TRUE, val |-> v, rest |-> rest]

\* Insignificant whitespace between JSON tokens.
RECURSIVE StripWs(_)
StripWs(ts) ==
  IF ts = <<>> THEN <<>>
  ELSE IF Head(ts) = " " THEN StripWs(Tail(ts))
  ELSE <<Head(ts)>> \o StripWs(Tail(ts))

RECURSIVE ParseValue(_), ParseElems(_, _), ParseMembers(_, _, _)
\* value := string | number | null | '[' elements ']' | '{' members '}'
ParseValue(ts) ==
  IF ts = <<>> THEN ParseFail
  ELSE LET h == Head(ts) IN
    IF h \in StrToks THEN ParseOk(StrVal(Literal(h)), Tail(ts))
    ELSE IF h \in NumToks THEN ParseOk(NumVal(<<h>>), Tail(ts))
    ELSE IF h = "null" THEN ParseOk(NoneVal, Tail(ts))
    ELSE IF h = "[" THEN
      IF Len(ts) > 1 /\ ts[2] = "]" THEN ParseOk(ListVal(<<>>), Tail(Tail(ts)))
      ELSE ParseElems(Tail(ts), <<>>)
    ELSE IF h = "{" THEN
      IF Len(ts) > 1 /\ ts[2] = "}" THEN ParseOk(DictVal(<<>>, <<>>), Tail(Tail(ts)))
      ELSE ParseMembers(Tail(ts), <<>>, <<>>)
    ELSE ParseFail

\* elements := value (',' value)* ']'
ParseElems(ts, acc) ==
  LET r == ParseValue(ts) IN
    IF ~r.ok \/ r.rest = <<>> THEN ParseFail
    ELSE IF Head(r.rest) = "," THEN ParseElems(Tail(r.rest), Append(acc, r.val))
    ELSE IF Head(r.rest) = "]" THEN ParseOk(ListVal(Append(acc, r.val)), Tail(r.rest))
    ELSE ParseFail

\* members := string ':' value (',' string ':' value)* '}'
ParseMembers(ts, keys, vals) ==
  IF Len(ts) < 2 \/ Head(ts) \notin StrToks \/ ts[2] # ":" THEN ParseFail
  ELSE LET r == ParseValue(Tail(Tail(ts))) IN
    IF ~r.ok \/ r.rest = <<>> THEN ParseFail
    ELSE IF Head(r.rest) = "," THEN
      ParseMembers(Tail(r.rest), Append(keys, Head(ts)), Append(vals, r.val))
    ELSE IF Head(r.rest) = "}" THEN
      ParseOk(DictVal(Append(keys, Head(ts)), Append(vals, r.val)), Tail(r.rest))
    ELSE ParseFail

\* json.loads(text): the whole text must be one value; ok = FALSE stands for
\* json.JSONDecodeError.
JsonLoads(ts) ==
  LET r == ParseValue(StripWs(ts)) IN
    [ok |-> r.ok /\ r.rest = <<>>, val |-> IF r.ok /\ r.rest = <<>> THEN r.val ELSE NoneVal]

\* str.startswith(prefix) for a one-token prefix
StartsWith(line, tok) == line # <<>> /\ Head(line) = tok

\* str.find(tok): the 1-based position of the first occurrence, 0 for -1
RECURSIVE FindFrom(_, _, _)
FindFrom(line, tok, i) ==
  IF i > Len(line) THEN 0
  ELSE IF line[i] = tok THEN i
  ELSE FindFrom(line, tok, i + 1)

Find(line, tok) == FindFrom(line, tok, 1)

\* line[start:], start 1-based
SliceFrom(line, start) == SubSeq(line, start, Len(line))

\* ---------------------------------------------------------------------
\* Inputs: response lines, model ids, request bodies
\* ---------------------------------------------------------------------
LineEmpty == <<>>
LineComment == <<":", " ", "{", "}">>
LineDone == <<"data:", " ", "[", "DONE", "]">>
LineDelta == <<"data:", " ", "{", "id", ":", "1", "}">>
LineCitAB == <<"data:", " ", "{", "citations", ":", "[", "a", ",", "b", "]", "}">>
LineCitC == <<"data:", " ", "{", "id", ":", "1", ",", "citations", ":", "[", "c", "]", "}">>
LineCitStr == <<"data:", " ", "{", "citations", ":", "a", "}">>
LineCitNum == <<"data:", " ", "{", "citations", ":", "[", "1", "]", "}">>
LineBad == <<"data:", " ", "{", "citations", ":", "[", "a">>

Lines ==
  {LineEmpty, LineComment, LineDone, LineDelta, LineCitAB, LineCitC,
   LineCitStr, LineCitNum, LineBad}

DeepResearch == <<"sonar-deep-research">>

\* body["model"], a dot-separated string
ModelNames == {<<"sonar">>, <<"org", ".", "sonar-deep-research">>}

\* body.get("stream", ...): the key may be absent
StreamFlags == {"absent", "true", "false"}

\* __event_emitter__: None, a callback that returns, a callback that raises
Emitters == {"none", "ok", "raises"}

\* ---------------------------------------------------------------------
\* Pipe helpers
\* ---------------------------------------------------------------------
\* the label counting positions from 0
LabelZeroBased(i) == <<"[", ToString(i - 1), "]">>

\* "[i]" for the 1-based position i
Label(i) == <<"[", ToString(i), "]">>

SourceRecord(i, url) ==
  [source |-> [name |-> Label(i), type |-> "web_search_results", urls |-> <<url>>],
   document |-> <<"Click the link to view the content.">>,
   metadata |-> <<[source |-> url]>>]

RECURSIVE FormatFrom(_, _)
FormatFrom(items, i) ==
  IF i > Len(items) THEN <<>>
  ELSE (IF IsStr(items[i]) THEN <<SourceRecord(i, items[i].s)>> ELSE <<>>)
       \o FormatFrom(items, i + 1)

\* Pipe._format_citations_as_sources
FormatCitationsAsSources(citations) ==
  IF IsList(citations) THEN FormatFrom(citations.items, 1) ELSE <<>>

SourcesEvent(sources) == [type |-> "chat:completion", data |-> [sources |-> sources]]

\* _emit_sources sending one event per source record
EmitSourcesPerRecord(citations, emitSources, emitter) ==
  IF IsList(citations) /\ emitSources /\ emitter # "none"
  THEN LET sources == FormatCitationsAsSources(citations) IN
         [i \in 1..Len(sources) |-> SourcesEvent(<<sources[i]>>)]
  ELSE <<>>

\* _emit_sources without the EMIT_SOURCES test
EmitSourcesIgnoringValve(citations, emitSources, emitter) ==
  IF IsList(citations)
  THEN LET sources == FormatCitationsAsSources(citations) IN
         IF sources # <<>> /\ emitter # "none" THEN <<SourcesEvent(sources)>> ELSE <<>>
  ELSE <<>>

\* Pipe._emit_sources up to the await: the events handed to the callback
\* (none or one).
EmitSources(citations, emitSources, emitter) ==
  IF IsList(citations) /\ emitSources
  THEN LET sources == FormatCitationsAsSources(citations) IN
         IF sources # <<>> /\ emitter # "none" THEN <<SourcesEvent(sources)>> ELSE <<>>
  ELSE <<>>

\* _process_line returning the line with its whitespace stripped
ProcessLineStripped(line) ==
  IF line # <<>> /\ StartsWith(line, "data:") /\ Find(line, "{") # 0
  THEN LET line_copy == JsonLoads(SliceFrom(line, Find(line, "{"))) IN
         IF line_copy.ok
         THEN [ok |-> TRUE, line |-> StripWs(line),
               citations |-> DictGet(line_copy.val, "citations", ListVal(<<>>))]
         ELSE [ok |-> FALSE, line |-> <<>>, citations |-> ListVal(<<>>)]
  ELSE [ok |-> TRUE, line |-> StripWs(line), citations |-> ListVal(<<>>)]

\* Pipe._process_line: ok = FALSE is the exception json.loads raises, and
\* then nothing is returned.
ProcessLine(line) ==
  IF line # <<>> /\ StartsWith(line, "data:")
  THEN LET json_start == Find(line, "{") IN
         IF json_start # 0
         THEN LET line_copy == JsonLoads(SliceFrom(line, json_start)) IN
                IF line_copy.ok
                THEN [ok |-> TRUE, line |-> line,
                      citations |-> DictGet(line_copy.val, "citations", ListVal(<<>>))]
                ELSE [ok |-> FALSE, line |-> <<>>, citations |-> ListVal(<<>>)]
         ELSE [ok |-> TRUE, line |-> line, citations |-> ListVal(<<>>)]
  ELSE [ok |-> TRUE, line |-> line, citations |-> ListVal(<<>>)]

\* body["model"].split(".")[-1]
RECURSIVE LastSegmentFrom(_, _)
LastSegmentFrom(name, i) ==
  IF i = 0 THEN name
  ELSE IF name[i] = "." THEN SubSeq(name, i + 1, Len(name))
  ELSE LastSegmentFrom(name, i - 1)

ModelId(name) == LastSegmentFrom(name, Len(name))

\* payload["stream"] = body.get("stream", True)
PayloadStream(flag) == flag # "false"

\* `if body.get("stream", False)`
StreamingPath(flag) == flag = "true"

\* `if model_id == "sonar-deep-research": self.timeout *= 10`
TimeoutAfter(model_id, t) == IF model_id = DeepResearch THEN t * 10 ELSE t

\* the capture without the `not citations` test: the last list wins
CaptureLast(citations, returned) ==
  IF Truthy(returned) THEN returned ELSE citations

\* `if not citations and returned_citations: citations = returned_citations`
Capture(citations, returned) ==
  IF ~Truthy(citations) /\ Truthy(returned) THEN returned ELSE citations

\* f"Error: {e}"
ErrorItem(e) == StrVal(<<"Error:", " ", e>>)

IsErrorItem(item) == IsStr(item) /\ StartsWith(item.s, "Error:")

\* ---------------------------------------------------------------------
\* Non-streamed responses
\* ---------------------------------------------------------------------
ChoiceText(content) ==
  <<"{", "index", ":", "0", ",", "finish_reason", ":", "stop", ",",
    "message", ":", "{", "role", ":", "assistant", ",", "content", ":", content, "}", "}">>

HeadText ==
  <<"id", ":", "a", ",", "model", ":", "sonar", ",", "created", ":", "1", ",",
    "object", ":", "b">>

BodyOne ==
  <<"{">> \o HeadText
    \o <<",", "citations", ":", "[", "a", "]", ",", "choices", ":", "[">>
    \o ChoiceText("hi") \o <<"]", "}">>
BodyTwo ==
  <<"{">> \o HeadText \o <<",", "choices", ":", "[">>
    \o ChoiceText("hi") \o <<",">> \o ChoiceText("yo") \o <<"]", "}">>
BodyNoId ==
  <<"{", "model", ":", "sonar", ",", "created", ":", "1", ",", "object", ":", "b", ",",
    "choices", ":", "[">> \o ChoiceText("hi") \o <<"]", "}">>
BodyNoChoices == <<"{">> \o HeadText \o <<",", "choices", ":", "[", "]", "}">>
BodyBadChoice ==
  <<"{">> \o HeadText \o <<",", "choices", ":", "[">>
    \o ChoiceText("hi") \o <<",", "{", "index", ":", "1", "}", "]", "}">>
BodyTruncated == <<"{">> \o HeadText
BodyNoModel ==
  <<"{", "id", ":", "a", ",", "created", ":", "1", ",", "object", ":", "b", ",",
    "choices", ":", "[">> \o ChoiceText("hi") \o <<"]", "}">>
BodyNoCreated ==
  <<"{", "id", ":", "a", ",", "model", ":", "sonar", ",", "object", ":", "b", ",",
    "choices", ":", "[">> \o ChoiceText("hi") \o <<"]", "}">>
BodyNoObject ==
  <<"{", "id", ":", "a", ",", "model", ":", "sonar", ",", "created", ":", "1", ",",
    "choices", ":", "[">> \o ChoiceText("hi") \o <<"]", "}">>
BodyChoicesMissing == <<"{">> \o HeadText \o <<"}">>

Bodies ==
  {BodyOne, BodyTwo, BodyNoId, BodyNoChoices, BodyBadChoice, BodyTruncated,
   BodyNoModel, BodyNoCreated, BodyNoObject, BodyChoicesMissing}

StatusCodes == {200, 500}

\* d[key]: KeyError when the key is missing, TypeError when d is no dict
Subscript(d, key) ==
  IF d.t # "dict" THEN [ok |-> FALSE, exc |-> "TypeError", val |-> NoneVal]
  ELSE IF ~HasKey(d, key) THEN [ok |-> FALSE, exc |-> "KeyError", val |-> NoneVal]
  ELSE [ok |-> TRUE, exc |-> "", val |-> DictGet(d, key, NoneVal)]

\* the first key of keys that d[key] fails on, as its exception; "" if none
RECURSIVE FirstFailure(_, _, _)
FirstFailure(d, keys, i) ==
  IF i > Len(keys) THEN ""
  ELSE IF ~Subscript(d, keys[i]).ok THEN Subscript(d, keys[i]).exc
  ELSE FirstFailure(d, keys, i + 1)

\* one element of the "choices" comprehension (lines 220-228)
FormatChoice(choice) ==
  LET top == FirstFailure(choice, <<"index", "finish_reason", "message">>, 1) IN
    IF top # "" THEN [ok |-> FALSE, exc |-> top, content |-> NoneVal]
    ELSE LET message == Subscript(choice, "message").val
             inner == FirstFailure(message, <<"role", "content">>, 1) IN
           IF inner # "" THEN [ok |-> FALSE, exc |-> inner, content |-> NoneVal]
           ELSE [ok |-> TRUE, exc |-> "", content |-> Subscript(message, "content").val]

RECURSIVE FormatChoices(_, _, _)
FormatChoices(choices, i, acc) ==
  IF i > Len(choices) THEN [ok |-> TRUE, exc |-> "", contents |-> acc]
  ELSE LET c == FormatChoice(choices[i]) IN
         IF ~c.ok THEN [ok |-> FALSE, exc |-> c.exc, contents |-> <<>>]
         ELSE FormatChoices(choices, i + 1, Append(acc, c.content))

NonStreamFail(e) == [ok |-> FALSE, exc |-> e, content |-> NoneVal]

\* the non-streaming path reading id, model, created and object with a
\* default instead of a subscript
NonStreamResultDefaulting(status, body) ==
  IF status # 200 THEN NonStreamFail("HTTPStatusError")
  ELSE LET parsed == JsonLoads(body) IN
    IF ~parsed.ok THEN NonStreamFail("JSONDecodeError")
    ELSE LET response == parsed.val IN
      IF response.t # "dict" THEN NonStreamFail("AttributeError")
      ELSE LET missing == FirstFailure(response, <<"choices">>, 1) IN
        IF missing # "" THEN NonStreamFail(missing)
        ELSE LET choices == Subscript(response, "choices").val IN
          IF choices.t # "list" THEN NonStreamFail("TypeError")
          ELSE LET formatted == FormatChoices(choices.items, 1, <<>>) IN
            IF ~formatted.ok THEN NonStreamFail(formatted.exc)
            ELSE IF formatted.contents = <<>> THEN NonStreamFail("IndexError")
            ELSE [ok |-> TRUE, exc |-> "", content |-> formatted.contents[1]]

\* the non-streaming path yielding the content of the last choice
NonStreamResultLastChoice(status, body) ==
  IF status # 200 THEN NonStreamFail("HTTPStatusError")
  ELSE LET parsed == JsonLoads(body) IN
    IF ~parsed.ok THEN NonStreamFail("JSONDecodeError")
    ELSE LET response == parsed.val IN
      IF response.t # "dict" THEN NonStreamFail("AttributeError")
      ELSE LET missing == FirstFailure(response, <<"id", "model", "created", "object", "choices">>, 1) IN
        IF missing # "" THEN NonStreamFail(missing)
        ELSE LET choices == Subscript(response, "choices").val IN
          IF choices.t # "list" THEN NonStreamFail("TypeError")
          ELSE LET formatted == FormatChoices(choices.items, 1, <<>>) IN
            IF ~formatted.ok THEN NonStreamFail(formatted.exc)
            ELSE IF formatted.contents = <<>> THEN NonStreamFail("IndexError")
            ELSE [ok |-> TRUE, exc |-> "",
                  content |-> formatted.contents[Len(formatted.contents)]]

\* Lines 209-232: the item the non-streaming path yields, or the exception.
NonStreamResult(status, body) ==
  IF status # 200 THEN NonStreamFail("HTTPStatusError")
  ELSE LET parsed == JsonLoads(body) IN
    IF ~parsed.ok THEN NonStreamFail("JSONDecodeError")
    ELSE LET response == parsed.val IN
      IF response.t # "dict" THEN NonStreamFail("AttributeError")
      ELSE LET missing == FirstFailure(response, <<"id", "model", "created", "object", "choices">>, 1) IN
        IF missing # "" THEN NonStreamFail(missing)
        ELSE LET choices == Subscript(response, "choices").val IN
          IF choices.t # "list" THEN NonStreamFail("TypeError")
          ELSE LET formatted == FormatChoices(choices.items, 1, <<>>) IN
            IF ~formatted.ok THEN NonStreamFail(formatted.exc)
            ELSE IF formatted.contents = <<>> THEN NonStreamFail("IndexError")
            ELSE [ok |-> TRUE, exc |-> "", content |-> formatted.contents[1]]

\* ---------------------------------------------------------------------
\* State
\* ---------------------------------------------------------------------
VARIABLES
  valves,     \* self.valves: PERPLEXITY_API_KEY, EMIT_SOURCES
  timeout,    \* self.timeout
  calls,      \* the calls of pipe() made on the instance
  callsLeft,  \* calls the host will still make
  linesLeft,  \* lines the network will still deliver
  fmt         \* a direct call of _format_citations_as_sources: argument, result

vars == <<valves, timeout, calls, callsLeft, linesLeft, fmt>>

BaseTimeout == 60

\* A call of pipe() before it is made.
IdleCall ==
  [pc |-> "idle",
   model |-> <<>>, stream |-> "absent", emitter |-> "none",
   client |-> "none", resp |-> "none",
   request |-> <<>>, response |-> <<>>,
   received |-> <<>>, exhausted |-> FALSE,
   returned |-> ListVal(<<>>), citations |-> ListVal(<<>>),
   yielded |-> <<>>, events |-> <<>>,
   failure |-> "", raised |-> FALSE]

ValveSets == [PERPLEXITY_API_KEY : {<<>>, <<"key">>}, EMIT_SOURCES : BOOLEAN]

InitWith(nCalls, nLines) ==
  /\ valves \in ValveSets
  /\ timeout = BaseTimeout
  /\ calls = [c \in CallIds |-> IdleCall]
  /\ callsLeft = nCalls
  /\ linesLeft = nLines

\* No direct call of the formatter.
NoFormat == [citations |-> NoneVal, called |-> FALSE, sources |-> <<>>]

\* one call on a fresh instance
Init == InitWith(1, MaxLines) /\ fmt = NoFormat

\* several calls, interleaved, on one instance
InitCalls == InitWith(MaxCalls, MaxCallLines) /\ fmt = NoFormat

\* The entries of the lists given to the formatter: strings, and values that
\* are not strings.
CitationEntries == {StrVal(<<"a">>), StrVal(<<"b">>), NumVal(<<"1">>), NoneVal}

\* The arguments given to the formatter: every list of up to MaxCitations
\* entries, and values that are not lists.
FormatArgs ==
  {ListVal(items) : items \in UNION {[1..n -> CitationEntries] : n \in 0..MaxCitations}}
    \cup {NoneVal, StrVal(<<"a">>), NumVal(<<"1">>), DictVal(<<"a">>, <<StrVal(<<"b">>)>>)}

\* the formatter is about to be called on some argument; pipe() is not called
InitFormat == InitWith(0, 0) /\ fmt \in [citations : FormatArgs, called : {FALSE}, sources : {<<>>}]

\* ---------------------------------------------------------------------
\* Steps of pipe()
\* ---------------------------------------------------------------------
Put(c, rec) == calls' = [calls EXCEPT ![c] = rec]

\* leaving the `async with` blocks: the response stream and the client close
Released(cr) ==
  [cr EXCEPT !.resp = IF @ = "open" THEN "closed" ELSE @,
             !.client = IF @ = "open" THEN "closed" ELSE @]

\* the exception logged and swallowed: no error item is yielded
FailedSilently(cr, e) ==
  [Released(cr) EXCEPT !.failure = e, !.pc = "done"]

\* the exception logged and raised again to the consumer
FailedRaises(cr, e) ==
  [Released(cr) EXCEPT !.failure = e, !.raised = TRUE, !.pc = "raised"]

\* the sources of the captured citations emitted on the way out of a failure
FailedThenEmits(cr, e) ==
  [Released(cr) EXCEPT !.yielded = Append(@, ErrorItem(e)), !.failure = e, !.pc = "error",
                       !.events = @ \o (IF Truthy(cr.citations)
                                        THEN EmitSources(cr.citations, valves.EMIT_SOURCES, cr.emitter)
                                        ELSE <<>>)]

\* Lines 234-236: an exception raised inside the try block leaves the
\* `async with` blocks and is answered by one yielded item.
Failed(cr, e) ==
  [Released(cr) EXCEPT !.yielded = Append(@, ErrorItem(e)), !.failure = e, !.pc = "error"]

\* The generator returns after the try block.
Completed(cr) == [Released(cr) EXCEPT !.pc = "done"]

\* pipe(body, __event_emitter__) is called: the generator object is created,
\* none of its body has run.
Call(c, model, stream, emitter) ==
  /\ callsLeft > 0
  /\ calls[c].pc = "idle"
  /\ \A d \in CallIds : d < c => calls[d].pc # "idle"
  /\ callsLeft' = callsLeft - 1
  /\ Put(c, [calls[c] EXCEPT !.pc = "created", !.model = model,
                             !.stream = stream, !.emitter = emitter])
  /\ UNCHANGED <<fmt, valves, timeout, linesLeft>>

\* the body without the PERPLEXITY_API_KEY test
BeginUnchecked(c) ==
  /\ calls[c].pc = "created"
  /\ timeout' = TimeoutAfter(ModelId(calls[c].model), timeout)
  /\ Put(c, [calls[c] EXCEPT !.pc = "client"])
  /\ UNCHANGED <<fmt, valves, callsLeft, linesLeft>>

\* Lines 150-185: the first request for an item runs the body up to the
\* first await (entering httpx.AsyncClient).
Begin(c) ==
  /\ calls[c].pc = "created"
  /\ IF valves.PERPLEXITY_API_KEY = <<>>
     THEN /\ Put(c, [calls[c] EXCEPT !.pc = "raised", !.raised = TRUE,
                                     !.failure = "PipeExceptionError"])
          /\ UNCHANGED timeout
     ELSE /\ timeout' = TimeoutAfter(ModelId(calls[c].model), timeout)
          /\ Put(c, [calls[c] EXCEPT !.pc = "client"])
  /\ UNCHANGED <<fmt, valves, callsLeft, linesLeft>>

\* Lines 185-194 / 206-208: the client is entered and the request is issued
\* with timeout=self.timeout as it is now.
EnterClient(c) ==
  /\ calls[c].pc = "client"
  /\ Put(c, [calls[c] EXCEPT
        !.client = "open",
        !.request = <<[model |-> ModelId(calls[c].model),
                       stream |-> PayloadStream(calls[c].stream),
                       timeout |-> timeout]>>,
        !.pc = IF StreamingPath(calls[c].stream) THEN "connecting" ELSE "posting"])
  /\ UNCHANGED <<fmt, valves, timeout, callsLeft, linesLeft>>

\* Lines 188-196: the streamed response arrives, or the connection fails, or
\* raise_for_status() rejects the status.
StreamOpens(c, status) ==
  /\ calls[c].pc = "connecting"
  /\ Put(c, IF status = 200
            THEN [calls[c] EXCEPT !.resp = "open", !.citations = ListVal(<<>>),
                                  !.pc = "reading"]
            ELSE Failed([calls[c] EXCEPT !.resp = "open"], "HTTPStatusError"))
  /\ UNCHANGED <<fmt, valves, timeout, callsLeft, linesLeft>>

ConnectFails(c) ==
  /\ calls[c].pc \in {"connecting", "posting"}
  /\ Put(c, Failed(calls[c], "ConnectError"))
  /\ UNCHANGED <<fmt, valves, timeout, callsLeft, linesLeft>>

\* Line 197: r.aiter_lines() delivers the next line.
NetLine(c, line) ==
  /\ calls[c].pc = "reading"
  /\ linesLeft > 0
  /\ linesLeft' = linesLeft - 1
  /\ Put(c, [calls[c] EXCEPT !.received = Append(@, line), !.pc = "got"])
  /\ UNCHANGED <<fmt, valves, timeout, callsLeft>>

\* Line 197: the connection breaks while the next line is awaited.
ReadFails(c) ==
  /\ calls[c].pc = "reading"
  /\ Put(c, Failed(calls[c], "ReadError"))
  /\ UNCHANGED <<fmt, valves, timeout, callsLeft, linesLeft>>

\* the line processed and kept back instead of yielded
ProcessWithoutYield(c) ==
  /\ calls[c].pc = "got"
  /\ LET line == calls[c].received[Len(calls[c].received)]
         p == ProcessLine(line) IN
       Put(c, IF p.ok
              THEN [calls[c] EXCEPT !.returned = p.citations, !.pc = "suspended"]
              ELSE Failed(calls[c], "JSONDecodeError"))
  /\ UNCHANGED <<fmt, valves, timeout, callsLeft, linesLeft>>

\* Lines 198-199: the line is processed and yielded; the generator is
\* suspended at the yield.
ProcessAndYield(c) ==
  /\ calls[c].pc = "got"
  /\ LET line == calls[c].received[Len(calls[c].received)]
         p == ProcessLine(line) IN
       Put(c, IF p.ok
              THEN [calls[c] EXCEPT !.yielded = Append(@, StrVal(p.line)),
                                    !.returned = p.citations, !.pc = "suspended"]
              ELSE Failed(calls[c], "JSONDecodeError"))
  /\ UNCHANGED <<fmt, valves, timeout, callsLeft, linesLeft>>

\* the sources emitted inside the loop, as soon as a citation set is captured
ResumeEmits(c) ==
  /\ calls[c].pc = "suspended"
  /\ LET captured == Capture(calls[c].citations, calls[c].returned)
         events == IF ~Truthy(calls[c].citations) /\ Truthy(captured)
                   THEN EmitSources(captured, valves.EMIT_SOURCES, calls[c].emitter)
                   ELSE <<>> IN
       Put(c, [calls[c] EXCEPT !.citations = captured, !.events = @ \o events,
                               !.pc = "reading"])
  /\ UNCHANGED <<fmt, valves, timeout, callsLeft, linesLeft>>

\* Lines 200-201: the consumer asks for the next item; the generator resumes
\* after the yield.
Resume(c) ==
  /\ calls[c].pc = "suspended"
  /\ Put(c, [calls[c] EXCEPT !.citations = Capture(@, calls[c].returned),
                             !.pc = "reading"])
  /\ UNCHANGED <<fmt, valves, timeout, callsLeft, linesLeft>>

\* Lines 202-203: the line sequence is exhausted; the callback is invoked if
\* _emit_sources decides so.
EndOfStream(c) ==
  /\ calls[c].pc = "reading"
  /\ LET cr == [calls[c] EXCEPT !.exhausted = TRUE]
         events == IF Truthy(cr.citations)
                   THEN EmitSources(cr.citations, valves.EMIT_SOURCES, cr.emitter)
                   ELSE <<>> IN
       Put(c, IF events # <<>>
              THEN [cr EXCEPT !.events = @ \o events, !.pc = "emitting"]
              ELSE Completed(cr))
  /\ UNCHANGED <<fmt, valves, timeout, callsLeft, linesLeft>>

\* the callback called a second time after it raised
EmitterSettlesRetries(c) ==
  /\ calls[c].pc = "emitting"
  /\ Put(c, IF calls[c].emitter = "raises"
            THEN Failed([calls[c] EXCEPT !.events = @ \o @], "EmitterError")
            ELSE Completed(calls[c]))
  /\ UNCHANGED <<fmt, valves, timeout, callsLeft, linesLeft>>

\* Line 122: the awaited callback returns or raises.
EmitterSettles(c) ==
  /\ calls[c].pc = "emitting"
  /\ Put(c, IF calls[c].emitter = "raises"
            THEN Failed(calls[c], "EmitterError")
            ELSE Completed(calls[c]))
  /\ UNCHANGED <<fmt, valves, timeout, callsLeft, linesLeft>>

\* Lines 206-232: the response to the POST arrives.
PostReturns(c, status, body) ==
  /\ calls[c].pc = "posting"
  /\ LET r == NonStreamResult(status, body)
         cr == [calls[c] EXCEPT !.response = <<[status |-> status, body |-> body]>>] IN
       Put(c, IF r.ok
              THEN [cr EXCEPT !.yielded = Append(@, r.content), !.pc = "content"]
              ELSE Failed(cr, r.exc))
  /\ UNCHANGED <<fmt, valves, timeout, callsLeft, linesLeft>>

\* The consumer asks for the item after the content or the error item: the
\* generator returns.
Finish(c) ==
  /\ calls[c].pc \in {"content", "error"}
  /\ Put(c, Completed(calls[c]))
  /\ UNCHANGED <<fmt, valves, timeout, callsLeft, linesLeft>>

\* the generator closed with the `async with` blocks left open
CloseWithoutRelease(c) ==
  /\ calls[c].pc \in {"suspended", "content", "error"}
  /\ Put(c, [calls[c] EXCEPT !.pc = "closed"])
  /\ UNCHANGED <<fmt, valves, timeout, callsLeft, linesLeft>>

\* The consumer closes the generator while it is suspended at a yield:
\* GeneratorExit is raised there, which `except Exception` does not catch.
Close(c) ==
  /\ calls[c].pc \in {"suspended", "content", "error"}
  /\ Put(c, [Released(calls[c]) EXCEPT !.pc = "closed"])
  /\ UNCHANGED <<fmt, valves, timeout, callsLeft, linesLeft>>

\* Every step any call can take, with the inputs drawn from the given sets.
NextOver(models, flags, emitters, lines, statuses, bodies) ==
  \/ \E c \in CallIds, m \in models, s \in flags, e \in emitters : Call(c, m, s, e)
  \/ \E c \in CallIds : Begin(c)
  \/ \E c \in CallIds : EnterClient(c)
  \/ \E c \in CallIds, status \in statuses : StreamOpens(c, status)
  \/ \E c \in CallIds : ConnectFails(c)
  \/ \E c \in CallIds, line \in lines : NetLine(c, line)
  \/ \E c \in CallIds : ReadFails(c)
  \/ \E c \in CallIds : ProcessAndYield(c)
  \/ \E c \in CallIds : Resume(c)
  \/ \E c \in CallIds : EndOfStream(c)
  \/ \E c \in CallIds : EmitterSettles(c)
  \/ \E c \in CallIds, status \in statuses, body \in bodies : PostReturns(c, status, body)
  \/ \E c \in CallIds : Finish(c)
  \/ \E c \in CallIds : Close(c)

Next == NextOver(ModelNames, StreamFlags, Emitters, Lines, StatusCodes, Bodies)

Spec == Init /\ [][Next]_vars

\* Interleaved calls: every model name, both paths, one response of each kind.
NextCalls ==
  NextOver(ModelNames, {"true", "false"}, {"ok"}, {LineCitAB}, StatusCodes, {BodyOne})

SpecCalls == InitCalls /\ [][NextCalls]_vars

\* Lines 82-107: _format_citations_as_sources(citations) is called and returns.
FormatCall ==
  /\ ~fmt.called
  /\ fmt' = [fmt EXCEPT !.called = TRUE,
                        !.sources = FormatCitationsAsSources(fmt.citations)]
  /\ UNCHANGED <<valves, timeout, calls, callsLeft, linesLeft>>

NextFormat == FormatCall

SpecFormat == InitFormat /\ [][NextFormat]_vars

\* ---------------------------------------------------------------------
\* Vocabulary of the properties
\* ---------------------------------------------------------------------
\* the lines ls as output items
Items(ls) == [i \in 1..Len(ls) |-> StrVal(ls[i])]

IsPrefix(a, b) == Len(a) <= Len(b) /\ SubSeq(b, 1, Len(a)) = a

\* c is a call that took the streaming path
Streaming(c) == calls[c].pc # "idle" /\ StreamingPath(calls[c].stream)

TransportFailures == {"ConnectError", "HTTPStatusError", "ReadError"}

\* the citation list a line carries, as the extractor reads it
CitationsOf(line) == ProcessLine(line).citations

NonEmptyList(v) == IsList(v) /\ v.items # <<>>

\* the first non-empty citation list among the lines ls, [] if there is none
RECURSIVE FirstNonEmptyFrom(_, _)
FirstNonEmptyFrom(ls, i) ==
  IF i > Len(ls) THEN ListVal(<<>>)
  ELSE LET p == ProcessLine(ls[i]) IN
    IF p.ok /\ NonEmptyList(p.citations) THEN p.citations
    ELSE FirstNonEmptyFrom(ls, i + 1)

FirstNonEmptyList(ls) == FirstNonEmptyFrom(ls, 1)

ErrorItemsIn(seq) == {i \in 1..Len(seq) : IsErrorItem(seq[i])}

\* seq is `lines` followed by exactly one item beginning with "Error:"
LinesThenOneError(seq, lines) ==
  /\ Len(seq) = Len(lines) + 1
  /\ SubSeq(seq, 1, Len(lines)) = Items(lines)
  /\ IsErrorItem(seq[Len(seq)])

\* ---------------------------------------------------------------------
\* Properties
\* ---------------------------------------------------------------------

\* C1 (as stated): in a streaming call whose response is delivered without
\* transport failure and whose data frames all parse, the yielded items are
\* always a prefix of the lines received, and are exactly those lines once
\* the call has completed.
C1_Original ==
  \A c \in CallIds :
    (Streaming(c) /\ calls[c].failure \notin TransportFailures \cup {"JSONDecodeError"})
      => /\ IsPrefix(calls[c].yielded, Items(calls[c].received))
         /\ calls[c].pc = "done" => calls[c].yielded = Items(calls[c].received)

\* C1 (amended): the same, for calls in which moreover the event callback
\* does not raise: at every state the yielded items are a prefix of the lines
\* received, at most one received line is not yet yielded, and on completion
\* the yielded items are exactly the received lines, unmodified and in order.
C1_IdentityPreserved ==
  \A c \in CallIds :
    (Streaming(c) /\ calls[c].failure = "")
      => /\ IsPrefix(calls[c].yielded, Items(calls[c].received))
         /\ Len(calls[c].received) - Len(calls[c].yielded) <= 1
         /\ calls[c].pc = "done" => calls[c].yielded = Items(calls[c].received)

\* C1 witness: a completed streaming call that forwarded an empty line, a
\* comment line and a data frame, and delivered the sources event.
C1_Witness ==
  \E c \in CallIds :
    /\ Streaming(c) /\ calls[c].pc = "done" /\ calls[c].failure = ""
    /\ calls[c].received = <<LineEmpty, LineComment, LineCitAB>>
    /\ calls[c].yielded = Items(calls[c].received)
    /\ Len(calls[c].events) = 1

\* C2: the captured citation set, when it is a list, is the first non-empty
\* citation list among the lines received, and the sources event, when sent,
\* is the one built from that list; a later list never replaces it.
C2_FirstNonEmptyWins ==
  \A c \in CallIds :
    Streaming(c) =>
      /\ NonEmptyList(calls[c].citations)
           => calls[c].citations = FirstNonEmptyList(calls[c].received)
      /\ calls[c].events # <<>>
           => calls[c].events =
                <<SourcesEvent(FormatCitationsAsSources(FirstNonEmptyList(calls[c].received)))>>

\* C2 witness: lines yielding [], ["a","b"], ["c"] produced the sources of
\* ["a","b"] only.
C2_Witness ==
  \E c \in CallIds :
    /\ calls[c].pc = "done"
    /\ calls[c].received = <<LineDelta, LineCitAB, LineCitC>>
    /\ calls[c].events =
         <<SourcesEvent(<<SourceRecord(1, <<"a">>), SourceRecord(2, <<"b">>)>>)>>

\* C3: in every call the event callback is invoked at most once, and never
\* when no received line carries a non-empty citation list.
C3_AtMostOnce ==
  \A c \in CallIds :
    /\ Len(calls[c].events) <= 1
    /\ \/ calls[c].events = <<>>
       \/ \E i \in 1..Len(calls[c].received) :
            LET p == ProcessLine(calls[c].received[i]) IN
              p.ok /\ NonEmptyList(p.citations)

\* C3 witness: two lines carried non-empty citation lists and the callback
\* was invoked once.
C3_Witness ==
  \E c \in CallIds :
    /\ calls[c].pc = "done"
    /\ calls[c].received = <<LineCitC, LineCitAB, LineCitC>>
    /\ Len(calls[c].events) = 1

\* C4: whenever the sources event has been sent, the line sequence is
\* exhausted and every received line has already been yielded; no line is
\* read or yielded afterwards.
C4_SourcesAfterLastLine ==
  \A c \in CallIds :
    calls[c].events # <<>>
      => /\ calls[c].exhausted
         /\ calls[c].pc \in {"emitting", "error", "done", "closed"}
         /\ IsPrefix(Items(calls[c].received), calls[c].yielded)

\* C4 witness: the citations arrived on the first of three lines and the
\* event is being delivered after the third was yielded.
C4_Witness ==
  \E c \in CallIds :
    /\ calls[c].pc = "emitting"
    /\ calls[c].received = <<LineCitAB, LineDelta, LineDone>>
    /\ calls[c].yielded = Items(calls[c].received)
    /\ Len(calls[c].events) = 1

\* What a streaming call that ran to completion yields when no sources event
\* is involved: the lines it forwarded, then the error item of a transport
\* or parse failure.  A line whose JSON fails to parse is the last received.
OutputWithoutSources(cr) ==
  IF cr.failure = "JSONDecodeError"
  THEN Items(SubSeq(cr.received, 1, Len(cr.received) - 1)) \o <<ErrorItem(cr.failure)>>
  ELSE IF cr.failure \in TransportFailures
  THEN Items(cr.received) \o <<ErrorItem(cr.failure)>>
  ELSE Items(cr.received)

\* C5 (as stated): with EMIT_SOURCES false the callback is never invoked, and
\* the output of a completed streaming call is the same whatever the valve:
\* it is the output without sources.
C5_Original ==
  \A c \in CallIds :
    /\ ~valves.EMIT_SOURCES => calls[c].events = <<>>
    /\ (Streaming(c) /\ calls[c].pc = "done")
         => calls[c].yielded = OutputWithoutSources(calls[c])

\* C5 (amended): with EMIT_SOURCES false the callback is never invoked and
\* the output is the output without sources; with the valve true the output
\* is the same, except that a callback that raises adds one final error item.
C5_ValveOff ==
  \A c \in CallIds :
    /\ ~valves.EMIT_SOURCES
         => /\ calls[c].events = <<>>
            /\ calls[c].failure # "EmitterError"
            /\ (Streaming(c) /\ calls[c].pc = "done")
                 => calls[c].yielded = OutputWithoutSources(calls[c])
    /\ (valves.EMIT_SOURCES /\ Streaming(c) /\ calls[c].pc = "done")
         => \/ calls[c].yielded = OutputWithoutSources(calls[c])
            \/ /\ calls[c].failure = "EmitterError"
               /\ calls[c].emitter = "raises"
               /\ calls[c].yielded =
                    Items(calls[c].received) \o <<ErrorItem("EmitterError")>>

\* C5 witness: the valve is false, a citation list was captured, a callback
\* that would raise was supplied, and the call completed without invoking it.
C5_Witness ==
  \E c \in CallIds :
    /\ ~valves.EMIT_SOURCES
    /\ Streaming(c) /\ calls[c].pc = "done"
    /\ calls[c].emitter = "raises"
    /\ calls[c].received = <<LineDelta, LineCitAB>>
    /\ NonEmptyList(calls[c].citations)
    /\ calls[c].events = <<>>
    /\ calls[c].yielded = Items(calls[c].received)

\* C6: after a transport failure in a streaming call the output is the k
\* lines received so far followed by exactly one item beginning with
\* "Error:", which is the last item; the call reads and yields nothing more.
C6_ErrorTerminal ==
  \A c \in CallIds :
    (Streaming(c) /\ calls[c].failure \in TransportFailures)
      => /\ LinesThenOneError(calls[c].yielded, calls[c].received)
         /\ ErrorItemsIn(calls[c].yielded) = {Len(calls[c].yielded)}
         /\ calls[c].pc \in {"error", "done", "closed"}

\* C6 witness: the connection broke after two lines had been forwarded and
\* the call ended after the error item.
C6_Witness ==
  \E c \in CallIds :
    /\ Streaming(c) /\ calls[c].pc = "done"
    /\ calls[c].failure = "ReadError"
    /\ Len(calls[c].received) = 2
    /\ Len(calls[c].yielded) = 3

\* every failure ends the call with one error item, the last item yielded,
\* and raises nothing to the consumer
EndsWithErrorItem(cr) ==
  /\ ~cr.raised
  /\ cr.pc \in {"error", "done", "closed"}
  /\ ErrorItemsIn(cr.yielded) = {Len(cr.yielded)}

C8_NoNetworkWithoutKey ==
  valves.PERPLEXITY_API_KEY = <<>> =>
    \A c \in CallIds :
      /\ calls[c].client = "none" /\ calls[c].resp = "none"
      /\ calls[c].request = <<>>
      /\ calls[c].yielded = <<>> /\ calls[c].events = <<>>
      /\ calls[c].pc \in {"idle", "created", "raised"}

\* C8 witness: a call made with an empty key has raised.
C8_Witness ==
  /\ valves.PERPLEXITY_API_KEY = <<>>
  /\ \E c \in CallIds : calls[c].pc = "raised" /\ calls[c].raised

\* C9 (as stated): a data frame whose JSON cannot be parsed is still yielded,
\* in its arrival position: when the parse failure is handled, every
\* received line, the malformed one included, has been yielded.
C9_MalformedFrameForwarded ==
  \A c \in CallIds :
    (Streaming(c) /\ calls[c].failure = "JSONDecodeError")
      => IsPrefix(Items(calls[c].received), calls[c].yielded)

\* the last dot-separated segment of a model name
LastSegment(name) == IF name = <<>> \/ name[Len(name)] = "." THEN <<>> ELSE <<name[Len(name)]>>

\* C10 (as stated): every request carries the last segment of body["model"]
\* as its model, and a timeout of 10 x 60 for "sonar-deep-research" and of
\* 60 for any other model, whatever calls came before or run beside it.
C10_PerCallTimeout ==
  \A c \in CallIds :
    calls[c].request # <<>>
      => /\ calls[c].request[1].model = LastSegment(calls[c].model)
         /\ calls[c].request[1].timeout =
              IF LastSegment(calls[c].model) = <<"sonar-deep-research">>
              THEN 10 * BaseTimeout ELSE BaseTimeout

\* a call whose POST was answered
Answered(c) == calls[c].response # <<>>

\* the decoded body of a response, a value of type none if it does not parse
Decoded(body) == JsonLoads(body).val

Field(d, key) == DictGet(d, key, NoneVal)

\* a choice with index, finish_reason and a message with role and content
CompleteChoice(ch) ==
  /\ ch.t = "dict"
  /\ \A k \in {"index", "finish_reason", "message"} : HasKey(ch, k)
  /\ Field(ch, "message").t = "dict"
  /\ \A k \in {"role", "content"} : HasKey(Field(ch, "message"), k)

\* a 2xx response whose body is an object with id, model, created, object and
\* n >= 1 complete choices
SuccessfulResponse(resp) ==
  /\ resp.status = 200
  /\ JsonLoads(resp.body).ok
  /\ Decoded(resp.body).t = "dict"
  /\ \A k \in {"id", "model", "created", "object", "choices"} : HasKey(Decoded(resp.body), k)
  /\ LET choices == Field(Decoded(resp.body), "choices") IN
       /\ choices.t = "list"
       /\ choices.items # <<>>
       /\ \A i \in 1..Len(choices.items) : CompleteChoice(choices.items[i])

\* choices[0].message.content of a response body
FirstChoiceContent(body) ==
  Field(Field(Field(Decoded(body), "choices").items[1], "message"), "content")

\* C11: a non-streaming call answered by a successful response with n >= 1
\* choices yields exactly one item, the content of the message of the first
\* choice, whatever the other choices hold.
C11_FirstChoiceOnly ==
  \A c \in CallIds :
    (Answered(c) /\ SuccessfulResponse(calls[c].response[1]))
      => /\ calls[c].failure = ""
         /\ calls[c].yielded = <<FirstChoiceContent(calls[c].response[1].body)>>

\* C11 witness: a response with the two choices "hi" and "yo" was answered
\* by the single item "hi", and the call completed.
C11_Witness ==
  \E c \in CallIds :
    /\ calls[c].pc = "done"
    /\ Answered(c) /\ calls[c].response[1] = [status |-> 200, body |-> BodyTwo]
    /\ calls[c].yielded = <<StrVal(<<"hi">>)>>

\* C12: a non-streaming call answered by a successful response carrying a
\* non-empty top-level citations list, with EMIT_SOURCES true and an event
\* callback supplied, has delivered the sources event built from that list
\* to the callback exactly once when it completes.
C12_NonStreamSources ==
  \A c \in CallIds :
    (/\ calls[c].pc = "done"
     /\ Answered(c) /\ SuccessfulResponse(calls[c].response[1])
     /\ NonEmptyList(Field(Decoded(calls[c].response[1].body), "citations"))
     /\ valves.EMIT_SOURCES
     /\ calls[c].emitter # "none")
      => calls[c].events =
           <<SourcesEvent(FormatCitationsAsSources(
               Field(Decoded(calls[c].response[1].body), "citations")))>>

\* the stream value of the outbound request and the path the call is handled on
SentStream(c) == calls[c].request[1].stream

OnStreamingPath(c) == calls[c].pc = "connecting"

\* C13: the handling path agrees with the stream value placed in the
\* outbound request, and a body that omits stream is sent with stream = true
\* and handled on the streaming path.
C13_StreamFlagConsistent ==
  \A c \in CallIds :
    calls[c].pc \in {"connecting", "posting"}
      => /\ SentStream(c) = OnStreamingPath(c)
         /\ calls[c].stream = "absent" => (SentStream(c) /\ OnStreamingPath(c))

\* the positions of the string entries of a list
StringPositions(items) == {i \in 1..Len(items) : IsStr(items[i])}

\* the position of the k-th string entry of a list
KthString(items, k) ==
  CHOOSE i \in StringPositions(items) :
    Cardinality({j \in StringPositions(items) : j <= i}) = k

\* C14: _format_citations_as_sources returns one record per string entry of
\* a list, in input order, with urls the one-element list of the entry,
\* metadata source the entry, and name "[p]" where p is the entry's position
\* in the input list counted from 1 (0-based position + 1); entries that are
\* not strings give no record; an empty list or a value that is not a list
\* gives the empty result.
C14_SourceFormatter ==
  fmt.called =>
    IF ~IsList(fmt.citations) THEN fmt.sources = <<>>
    ELSE LET items == fmt.citations.items IN
      /\ Len(fmt.sources) = Cardinality(StringPositions(items))
      /\ \A k \in 1..Len(fmt.sources) :
           LET p == KthString(items, k) IN
             /\ fmt.sources[k].source.urls = <<items[p].s>>
             /\ fmt.sources[k].metadata = <<[source |-> items[p].s]>>
             /\ fmt.sources[k].source.name = <<"[", ToString(p), "]">>

\* C14 witness: the list [1, "a", None] gave the single record named "[2]"
\* for "a".
C14_Witness ==
  /\ fmt.called
  /\ fmt.citations = ListVal(<<NumVal(<<"1">>), StrVal(<<"a">>), NoneVal>>)
  /\ Len(fmt.sources) = 1
  /\ fmt.sources[1].source.name = <<"[", "2", "]">>
  /\ fmt.sources[1].source.urls = <<<<"a">>>>

\* the lines of a call received from the network and not yielded
Pending(c) ==
  Len(calls[c].received)
    - Cardinality({i \in 1..Len(calls[c].yielded) : ~IsErrorItem(calls[c].yielded[i])})

\* C15: in a streaming call, whenever the generator asks the network for the
\* next line every line received so far has been yielded, and it never holds
\* more than one line that was received and not yielded.
C15_IncrementalForwarding ==
  \A c \in CallIds :
    Streaming(c) =>
      /\ Pending(c) \in {0, 1}
      /\ calls[c].pc = "reading" => calls[c].yielded = Items(calls[c].received)
      /\ calls[c].pc = "got" => Pending(c) = 1

\* C15 witness: the third line has been received while the first two are
\* already with the consumer.
C15_Witness ==
  \E c \in CallIds :
    /\ Streaming(c)
    /\ calls[c].pc = "got"
    /\ Len(calls[c].received) = 3
    /\ calls[c].yielded = Items(SubSeq(calls[c].received, 1, 2))

\* the call has terminated: it returned, raised, or was closed by the consumer
Terminated(c) == calls[c].pc \in {"done", "raised", "closed"}

\* the `async with` blocks the call entered have been left
AllReleased(c) == calls[c].client # "open" /\ calls[c].resp # "open"

\* C16: when a call has terminated (normal completion, failure, or the
\* consumer closing it at a yield) the response stream and the client it
\* opened are released; a call closed by the consumer at a line has yielded
\* exactly the lines read until then, no "Error:" item, and sent no sources
\* event; and a terminated call reads, yields and emits nothing more.
C16_ScopedRelease ==
  /\ [](\A c \in CallIds :
          /\ Terminated(c) => AllReleased(c)
          /\ (calls[c].pc = "closed" /\ calls[c].failure = "" /\ Streaming(c))
               => /\ calls[c].yielded = Items(calls[c].received)
                  /\ ~calls[c].exhausted
                  /\ calls[c].events = <<>>)
  /\ [][\A c \in CallIds : Terminated(c) => calls'[c] = calls[c]]_vars

\* C16 witness: the consumer closed a streaming call after its first line,
\* and the response stream and the client, both opened, are closed.
C16_Witness ==
  \E c \in CallIds :
    /\ Streaming(c)
    /\ calls[c].pc = "closed"
    /\ Len(calls[c].yielded) = 1 /\ calls[c].failure = ""
    /\ calls[c].resp = "closed" /\ calls[c].client = "closed"

\* C17: a citations field that is not a list is never captured as the
\* call's citation set, and does not keep the non-empty citation list of a
\* later line from being captured and emitted.
C17_NonListCountsAsEmpty ==
  \A c \in CallIds :
    Streaming(c) =>
      /\ IsList(calls[c].citations)
      /\ (/\ calls[c].pc = "done" /\ calls[c].failure = "" /\ calls[c].exhausted
          /\ valves.EMIT_SOURCES /\ calls[c].emitter = "ok"
          /\ FormatCitationsAsSources(FirstNonEmptyList(calls[c].received)) # <<>>)
           => calls[c].events =
                <<SourcesEvent(FormatCitationsAsSources(FirstNonEmptyList(calls[c].received)))>>

\* C18: when the event callback raises while the sources event is delivered,
\* nothing is raised to the consumer, the callback was invoked once, and the
\* output is every response line, once each and unaltered, followed by
\* exactly one "Error:" item.
C18_SinkFailure ==
  \A c \in CallIds :
    calls[c].failure = "EmitterError"
      => /\ ~calls[c].raised
         /\ calls[c].pc \in {"error", "done", "closed"}
         /\ calls[c].exhausted
         /\ Len(calls[c].events) = 1
         /\ LinesThenOneError(calls[c].yielded, calls[c].received)
         /\ Cardinality(ErrorItemsIn(calls[c].yielded)) = 1

\* C18 witness: the callback raised after two lines were forwarded, and the
\* call completed with three items.
C18_Witness ==
  \E c \in CallIds :
    /\ calls[c].failure = "EmitterError"
    /\ calls[c].emitter = "raises"
    /\ calls[c].pc = "done"
    /\ Len(calls[c].received) = 2
    /\ Len(calls[c].yielded) = 3

\* the failures that cut a stream short
CutShort == TransportFailures \cup {"JSONDecodeError"}

\* C19: a streaming call that fails before its lines are exhausted
\* (transport failure, or a line that does not parse) never invokes the event
\* callback, whatever it captured; a sources event is sent only in a call
\* whose lines were exhausted and all forwarded, with no "Error:" item
\* yielded before the event.
C19_NoSourcesWhenCutShort ==
  \A c \in CallIds :
    Streaming(c) =>
      /\ calls[c].failure \in CutShort
           => calls[c].events = <<>> /\ ~calls[c].exhausted
      /\ calls[c].events # <<>>
           => /\ calls[c].exhausted
              /\ IsPrefix(Items(calls[c].received), calls[c].yielded)
              /\ calls[c].failure \in {"", "EmitterError"}
      /\ calls[c].pc = "emitting" => ErrorItemsIn(calls[c].yielded) = {}

\* C19 witness: the connection broke after a non-empty citation list had
\* been captured, with the valve on and a callback supplied; the call
\* completed without an event.
C19_Witness ==
  \E c \in CallIds :
    /\ Streaming(c)
    /\ calls[c].failure = "ReadError"
    /\ NonEmptyList(calls[c].citations)
    /\ FormatCitationsAsSources(calls[c].citations) # <<>>
    /\ valves.EMIT_SOURCES /\ calls[c].emitter = "ok"
    /\ calls[c].pc = "done"
    /\ calls[c].events = <<>>

\* c is a call that took the non-streaming path
NonStreaming(c) == calls[c].pc # "idle" /\ ~StreamingPath(calls[c].stream)

\* a response the non-streaming path must refuse: a non-2xx status, a body
\* that does not parse, a missing id, model, created, object or choices, or
\* an empty choices list
Refused(resp) ==
  \/ resp.status # 200
  \/ ~JsonLoads(resp.body).ok
  \/ \E k \in {"id", "model", "created", "object", "choices"} : ~HasKey(Decoded(resp.body), k)
  \/ Field(Decoded(resp.body), "choices") = ListVal(<<>>)

\* C20: with a credential configured, a non-streaming call never yields more
\* than one item; once the POST was answered or failed, and when the call
\* has terminated, it has yielded exactly one item, the content when nothing
\* failed and an "Error:" item otherwise; a refused response gives only the
\* "Error:" item.
C20_ExactlyOneItem ==
  \A c \in CallIds :
    (NonStreaming(c) /\ valves.PERPLEXITY_API_KEY # <<>>) =>
      /\ Len(calls[c].yielded) <= 1
      /\ (Terminated(c) \/ Answered(c) \/ calls[c].failure # "")
           => /\ Len(calls[c].yielded) = 1
              /\ IsErrorItem(calls[c].yielded[1]) <=> calls[c].failure # ""
      /\ (Answered(c) /\ Refused(calls[c].response[1]))
           => calls[c].yielded = <<ErrorItem(calls[c].failure)>> /\ calls[c].failure # ""

\* C20 witness: a 200 response with an empty choices list was answered by
\* the "Error:" item alone, and the call completed.
C20_Witness ==
  \E c \in CallIds :
    /\ NonStreaming(c)
    /\ calls[c].pc = "done"
    /\ Answered(c) /\ calls[c].response[1] = [status |-> 200, body |-> BodyNoChoices]
    /\ calls[c].yielded = <<ErrorItem("IndexError")>>

====
